---- MODULE Spec2Model ----
(***************************************************************************)
(* k2spicedb: Keycloak realm export -> SpiceDB schema.                     *)
(*                                                                         *)
(* Python strings are sequences of one-character strings; a fixed piece of *)
(* output text ("definition user {}", "    relation ") is one token of a   *)
(* line, so a line is the sequence of its tokens and a text is the         *)
(* sequence of its lines.  A Python dict whose key order matters is a      *)
(* sequence of <<key, value>> pairs with distinct keys; a JSON object with *)
(* optional keys is a record whose DOMAIN holds the keys that are present. *)
(* A call's outcome is [exc, value]: exc = "None" when it returned value.  *)
(***************************************************************************)
EXTENDS Integers, Sequences, FiniteSets, TLC

VARIABLES
    name, sanitized, resanitized, san_pc,       \* sanitize_identifier(name), twice
    data, realm, schema, gen_pc,                \* parse_data(data), generate_schema(realm)
    llm, result, generator_calls, llm_pc,       \* LLMTransformer.transform(realm)
    input_files, jobs, outcome, submitted, running, finished, collected,
    results, calls, main_pc, exit_status,       \* cli.main
    in_paths, output_arg, out_paths, written    \* cli.main: the output files

sanVars == <<name, sanitized, resanitized, san_pc>>
genVars == <<data, realm, schema, gen_pc>>
llmVars == <<llm, result, generator_calls, llm_pc>>
mainVars == <<input_files, jobs, outcome, submitted, running, finished, collected,
              results, calls, main_pc, exit_status>>
outVars == <<in_paths, output_arg, out_paths, written>>
vars == <<sanVars, genVars, llmVars, mainVars, outVars>>

-----------------------------------------------------------------------------
(* Bounds of the checked inputs *)
MaxLen == 3
MaxRoles == 2
MaxParts == 2
MaxClients == 2
MaxGroups == 2
MaxFiles == 3
MaxJobs == 3

-----------------------------------------------------------------------------
(* Values *)
Ok(v) == [exc |-> "None", value |-> v]
Raise(e) == [exc |-> e, value |-> <<>>]
Pending == [exc |-> "pending", value |-> <<>>]
Returned(r) == r.exc = "None"

Range(s) == {s[i] : i \in 1..Len(s)}

RECURSIVE SeqsOfLen(_, _)
SeqsOfLen(S, n) ==
    IF n = 0 THEN {<<>>}
    ELSE {<<x>> \o t : x \in S, t \in SeqsOfLen(S, n - 1)}
SeqsUpTo(S, n) == UNION {SeqsOfLen(S, k) : k \in 0..n}

RECURSIVE Flatten(_)
Flatten(ss) == IF ss = <<>> THEN <<>> ELSE Head(ss) \o Flatten(Tail(ss))

\* sep.join(parts), each part a sequence of tokens
RECURSIVE Join(_, _)
Join(sep, parts) ==
    IF Len(parts) = 0 THEN <<>>
    ELSE IF Len(parts) = 1 THEN parts[1]
    ELSE parts[1] \o <<sep>> \o Join(sep, Tail(parts))

\* the keys of a dict, a sequence of <<key, value>> pairs
Keys(d) == {d[i][1] : i \in 1..Len(d)}
\* d[k] = v : a new key goes last, an existing key keeps its place
DictSet(d, k, v) ==
    IF k \in Keys(d)
    THEN [i \in 1..Len(d) |-> IF d[i][1] = k THEN <<k, v>> ELSE d[i]]
    ELSE Append(d, <<k, v>>)
\* d.get(k, default) on a record of the present keys
Get(d, k, default) == IF k \in DOMAIN d THEN d[k] ELSE default

-----------------------------------------------------------------------------
(* Characters *)
Digits == {"0", "1", "2", "3", "4", "5", "6", "7", "8", "9"}
Letters == {"a", "b", "c", "d", "e", "f", "g", "h", "i", "j", "k", "l", "m",
            "n", "o", "p", "q", "r", "s", "t", "u", "v", "w", "x", "y", "z",
            "A", "R", "Z"}
WordChars == Digits \cup Letters \cup {"_"}
SampleChars == {"a", "1", "_", "-", ":"}

-----------------------------------------------------------------------------
(* schema_generator.py *)

\* re.sub(r'[^0-9a-zA-Z_]', '_', name), then "_" in front of a leading digit;
\* sanitized[0] of the empty string raises IndexError
sanitize_identifier(nm) ==
    LET sub == [i \in 1..Len(nm) |-> IF nm[i] \in WordChars THEN nm[i] ELSE "_"]
    IN  IF Len(sub) = 0 THEN Raise("IndexError")
        ELSE IF sub[1] \in Digits THEN Ok(<<"_">> \o sub)
        ELSE Ok(sub)

\* tokens of the fixed texts that a name can also spell
STR_user == <<"u", "s", "e", "r">>
STR_group == <<"g", "r", "o", "u", "p">>
STR_realm == <<"r", "e", "a", "l", "m">>
STR_member == <<"m", "e", "m", "b", "e", "r">>
STR_parent == <<"p", "a", "r", "e", "n", "t">>

DefinitionOpen(nm) == <<"definition ">> \o nm \o <<" {">>
UserDefinition == <<"definition ">> \o STR_user \o <<" {}">>
RelationLine(nm, target) == <<"    relation ">> \o nm \o <<": ">> \o target
PermissionLine(nm, operands) ==
    <<"    permission ">> \o nm \o <<" = ">> \o Join(" + ", operands)
CommentLine(composite_role) ==
    <<"    // Composite role '">> \o composite_role
        \o <<"' spans multiple scopes (not fully expanded)">>
CloseLine == <<"}">>
RealmComment(nm) == <<"// Realm: ">> \o nm

SanitizeEach(names) == [i \in 1..Len(names) |-> sanitize_identifier(names[i])]
AnyRaise(rs) == \E i \in 1..Len(rs) : ~Returned(rs[i])
Values(rs) == [i \in 1..Len(rs) |-> rs[i].value]

AllHaveSubgroups(groups) == \A i \in 1..Len(groups) : Len(groups[i].subgroups) > 0
\* any(group.subgroups for group in realm.groups)
AnyHasSubgroups(groups) == \E i \in 1..Len(groups) : Len(groups[i].subgroups) > 0

add_group_definition(schema_lines, rlm) ==
    IF Len(rlm.groups) = 0 THEN schema_lines
    ELSE LET group_def == <<DefinitionOpen(STR_group), RelationLine(STR_member, STR_user)>>
             with_parent == IF AnyHasSubgroups(rlm.groups)
                            THEN Append(group_def, RelationLine(STR_parent, STR_group))
                            ELSE group_def
         IN  Append(schema_lines, Append(with_parent, CloseLine))

\* valid_roles = None and valid_roles = [] are both falsy: <<>> stands for either
add_composite_permissions(definition_lines, composite_role, parts, valid_roles) ==
    LET safe_composite == sanitize_identifier(composite_role)
        kept == SelectSeq(parts, LAMBDA p : Len(valid_roles) = 0 \/ p \in Range(valid_roles))
        valid_parts == SanitizeEach(kept)
    IN  IF ~Returned(safe_composite) THEN Raise(safe_composite.exc)
        ELSE IF AnyRaise(valid_parts) THEN Raise("IndexError")
        ELSE IF Len(valid_parts) > 0
        THEN Ok(Append(definition_lines,
                       PermissionLine(safe_composite.value, Values(valid_parts))))
        ELSE Ok(Append(definition_lines, CommentLine(composite_role)))

\* for composite_role, parts in realm.composite_roles.items():
\*     if composite_role in roles: _add_composite_permissions(...)
RECURSIVE AddComposites(_, _, _, _)
AddComposites(definition_lines, items, roles, valid_roles) ==
    IF Len(items) = 0 THEN Ok(definition_lines)
    ELSE IF items[1][1] \in Range(roles)
    THEN LET r == add_composite_permissions(definition_lines, items[1][1],
                                            items[1][2], valid_roles)
         IN  IF ~Returned(r) THEN r
             ELSE AddComposites(r.value, Tail(items), roles, valid_roles)
    ELSE AddComposites(definition_lines, Tail(items), roles, valid_roles)

add_realm_roles(schema_lines, rlm) ==
    IF Len(rlm.realm_roles) = 0 THEN Ok(schema_lines)
    ELSE LET safe_roles == SanitizeEach(rlm.realm_roles)
             realm_def == <<DefinitionOpen(STR_realm)>> \o
                 [i \in 1..Len(safe_roles) |-> RelationLine(safe_roles[i].value, STR_user)]
             done == AddComposites(realm_def, rlm.composite_roles, rlm.realm_roles, <<>>)
         IN  IF AnyRaise(safe_roles) THEN Raise("IndexError")
             ELSE IF ~Returned(done) THEN done
             ELSE Ok(Append(schema_lines, Append(done.value, CloseLine)))

ClientBlock(client, roles, rlm) ==
    LET safe_client == sanitize_identifier(client)
        safe_roles == SanitizeEach(roles)
        client_def == <<DefinitionOpen(safe_client.value)>> \o
            [i \in 1..Len(safe_roles) |-> RelationLine(safe_roles[i].value, STR_user)]
        done == AddComposites(client_def, rlm.composite_roles, roles, roles)
    IN  IF ~Returned(safe_client) THEN Raise(safe_client.exc)
        ELSE IF AnyRaise(safe_roles) THEN Raise("IndexError")
        ELSE IF ~Returned(done) THEN done
        ELSE Ok(Append(done.value, CloseLine))

RECURSIVE AddClients(_, _, _)
AddClients(schema_lines, items, rlm) ==
    IF Len(items) = 0 THEN Ok(schema_lines)
    ELSE LET b == ClientBlock(items[1][1], items[1][2], rlm)
         IN  IF ~Returned(b) THEN b
             ELSE AddClients(Append(schema_lines, b.value), Tail(items), rlm)

add_client_roles(schema_lines, rlm) == AddClients(schema_lines, rlm.client_roles, rlm)

SchemaBlocksRealmFirst(rlm) ==
    LET base == << <<UserDefinition>> >>
        with_realm == add_realm_roles(base, rlm)
        with_groups == IF Returned(with_realm)
                       THEN Ok(add_group_definition(with_realm.value, rlm))
                       ELSE with_realm
        with_clients == IF Returned(with_groups)
                        THEN add_client_roles(with_groups.value, rlm)
                        ELSE with_groups
    IN  IF ~Returned(with_clients) THEN with_clients
        ELSE IF Len(rlm.realm_roles) = 0 /\ Len(rlm.client_roles) = 0 /\ Len(rlm.groups) = 0
        THEN Ok(<< <<RealmComment(rlm.name)>> >> \o with_clients.value)
        ELSE with_clients

\* the blocks of schema_lines when generate_schema joins them
SchemaBlocks(rlm) ==
    LET base == << <<UserDefinition>> >>
        with_groups == add_group_definition(base, rlm)
        with_realm == add_realm_roles(with_groups, rlm)
        with_clients == IF Returned(with_realm)
                        THEN add_client_roles(with_realm.value, rlm)
                        ELSE with_realm
    IN  IF ~Returned(with_clients) THEN with_clients
        ELSE IF Len(rlm.realm_roles) = 0 /\ Len(rlm.client_roles) = 0 /\ Len(rlm.groups) = 0
        THEN Ok(<< <<RealmComment(rlm.name)>> >> \o with_clients.value)
        ELSE with_clients

\* "\n".join(schema_lines): the text as its sequence of lines
generate_schema(rlm) ==
    LET blocks == SchemaBlocks(rlm)
    IN  IF Returned(blocks) THEN Ok(Flatten(blocks.value)) ELSE blocks

-----------------------------------------------------------------------------
(* Idle parts of the state *)
SanIdle ==
    /\ name = <<>> /\ sanitized = Pending /\ resanitized = Pending /\ san_pc = "idle"
GenIdle ==
    /\ data = <<>> /\ realm = Pending /\ schema = Pending /\ gen_pc = "idle"
LlmIdle ==
    /\ llm = <<>> /\ result = Pending /\ generator_calls = 0 /\ llm_pc = "idle"
MainIdle ==
    /\ input_files = <<>> /\ jobs = 0 /\ outcome = <<>> /\ submitted = <<>>
    /\ running = {} /\ finished = {} /\ collected = {} /\ results = <<>>
    /\ calls = <<>>
    /\ main_pc = "idle" /\ exit_status = -1
OutIdle ==
    /\ in_paths = <<>> /\ output_arg = "" /\ out_paths = <<>> /\ written = {}

-----------------------------------------------------------------------------
(* sanitize_identifier on every string of at most MaxLen characters *)
InitSanitize ==
    /\ name \in SeqsUpTo(SampleChars, MaxLen)
    /\ sanitized = Pending /\ resanitized = Pending /\ san_pc = "start"
    /\ GenIdle /\ LlmIdle /\ MainIdle /\ OutIdle

Sanitize ==
    /\ san_pc = "start"
    /\ sanitized' = sanitize_identifier(name)
    /\ san_pc' = "sanitized"
    /\ UNCHANGED <<name, resanitized, genVars, llmVars, mainVars, outVars>>

SanitizeAgain ==
    /\ san_pc = "sanitized"
    /\ Returned(sanitized)
    /\ resanitized' = sanitize_identifier(sanitized.value)
    /\ san_pc' = "resanitized"
    /\ UNCHANGED <<name, sanitized, genVars, llmVars, mainVars, outVars>>

NextSanitize == Sanitize \/ SanitizeAgain
SpecSanitize == InitSanitize /\ [][NextSanitize]_vars

\* C3: for every string s, the empty string included, sanitize_identifier(s)
\* returns a string over [0-9a-zA-Z_] that does not start with a digit, and
\* sanitizing that result again returns it unchanged.
C3_SanitizeTotalValidIdempotent ==
    /\ san_pc # "start" =>
          /\ Returned(sanitized)
          /\ Range(sanitized.value) \subseteq WordChars
          /\ (Len(sanitized.value) > 0 => sanitized.value[1] \notin Digits)
    /\ san_pc = "resanitized" =>
          /\ Returned(resanitized)
          /\ resanitized.value = sanitized.value

-----------------------------------------------------------------------------
(* Realm values given to generate_schema *)
KeycloakRealm(nm, realm_roles, client_roles, groups, composite_roles) ==
    [name |-> nm, realm_roles |-> realm_roles, client_roles |-> client_roles,
     groups |-> groups, composite_roles |-> composite_roles]
Group(nm, subgroups) == [name |-> nm, subgroups |-> subgroups]

\* dicts of at most n entries over the given keys and values
RECURSIVE DictsOfLen(_, _, _)
DictsOfLen(keys, values, n) ==
    IF n = 0 THEN {<<>>}
    ELSE UNION {{Append(d, <<k, v>>) : k \in keys \ Keys(d), v \in values} :
                    d \in DictsOfLen(keys, values, n - 1)}
OrderedDicts(keys, values, n) == UNION {DictsOfLen(keys, values, k) : k \in 0..n}

RoleNames == {<<"a">>, <<"1">>}
ClientNames == {<<"c">>, <<>>}
ClientRef == <<"c", ":", "a">>
Refs == RoleNames \cup {ClientRef}
RealmName == <<"R">>

LeafGroups == {Group(<<"g">>, <<>>)}
GroupTrees == {Group(<<"g">>, subs) : subs \in SeqsUpTo(LeafGroups, MaxGroups)}
GroupForests == SeqsUpTo(GroupTrees, MaxGroups)

GroupFamily ==
    UNION {{KeycloakRealm(RealmName, rr, cl, gs, cr) :
                rr \in {<<>>, <<<<"a">>>>},
                cl \in {<<>>, << <<<<"c">>, <<<<"a">>>>>> >>},
                gs \in GroupForests} :
           cr \in {<<>>, << <<<<"a">>, <<<<"a">>>>>> >>}}

\* client names that sanitize to one identifier, or to the name of a base block
ClashingClients == {<<"-">>, <<"_">>, STR_realm, STR_user}

\* realm roles with composites; clients with a composite; groups; clients
\* whose names clash
InitGenerate ==
    /\ \/ \E rr \in SeqsUpTo(RoleNames, MaxRoles) :
          \E cr \in OrderedDicts(RoleNames, SeqsUpTo(Refs, MaxParts), MaxRoles) :
              realm = Ok(KeycloakRealm(RealmName, rr, <<>>, <<>>, cr))
       \/ \E rr \in {<<>>, <<<<"a">>>>} :
          \E cl \in OrderedDicts(ClientNames, SeqsUpTo(RoleNames, MaxRoles), MaxClients) :
          \E cr \in OrderedDicts(RoleNames, SeqsUpTo(Refs, MaxParts), 1) :
              realm = Ok(KeycloakRealm(RealmName, rr, cl, <<>>, cr))
       \/ realm \in {Ok(r) : r \in GroupFamily}
       \/ \E rr \in {<<>>, <<<<"a">>>>} :
          \E cl \in OrderedDicts(ClashingClients, {<<<<"a">>>>}, MaxClients) :
              realm = Ok(KeycloakRealm(RealmName, rr, cl, <<>>, <<>>))
    /\ data = <<>> /\ schema = Pending /\ gen_pc = "parsed"
    /\ SanIdle /\ LlmIdle /\ MainIdle /\ OutIdle

\* process_file with transformer = None: schema_text = generate_schema(realm)
GenerateSchema ==
    /\ gen_pc = "parsed"
    /\ Returned(realm)
    /\ schema' = generate_schema(realm.value)
    /\ gen_pc' = "done"
    /\ UNCHANGED <<data, realm, sanVars, llmVars, mainVars, outVars>>

NextGenerate == GenerateSchema
SpecGenerate == InitGenerate /\ [][NextGenerate]_vars

(* Reading the returned text *)
Generated == gen_pc = "done" /\ Returned(schema)
HasPrefix(line, prefix) ==
    Len(line) >= Len(prefix) /\ SubSeq(line, 1, Len(prefix)) = prefix
OpensBlock(line) == HasPrefix(line, <<"definition ">>)
\* the lines from line i up to the line that closes its block
BlockAt(text, i) ==
    LET last == IF \E j \in i..Len(text) : text[j] = CloseLine
                THEN CHOOSE j \in i..Len(text) :
                        text[j] = CloseLine /\ \A k \in i..(j - 1) : text[k] # CloseLine
                ELSE i
    IN  SubSeq(text, i, last)
BlockStarts(text) == {i \in 1..Len(text) : OpensBlock(text[i])}
\* the n-th definition block of the text
NthBlock(text, n) ==
    LET i == CHOOSE k \in BlockStarts(text) :
                 Cardinality({m \in BlockStarts(text) : m <= k}) = n
    IN  BlockAt(text, i)
GroupBlockNo(rlm) == 2
RealmBlockNo(rlm) == 1 + (IF Len(rlm.groups) > 0 THEN 1 ELSE 0) + 1
ClientBlockNo(rlm, c) ==
    1 + (IF Len(rlm.groups) > 0 THEN 1 ELSE 0)
      + (IF Len(rlm.realm_roles) > 0 THEN 1 ELSE 0) + c
ClientScoped(ref) == ":" \in Range(ref)
SafeName(nm) == sanitize_identifier(nm).value
PermissionFor(block, composite_role) ==
    \E i \in 1..Len(block) :
        HasPrefix(block[i], <<"    permission ">> \o SafeName(composite_role) \o <<" = ">>)
CommentFor(block, composite_role) ==
    \E i \in 1..Len(block) : block[i] = CommentLine(composite_role)

\* C1: for every composite role that is a realm role, the realm block holds
\* the "spans multiple scopes" comment and no permission line for it when one
\* of its components is a client:role reference, and holds the permission
\* line of its sanitized components, joined by " + " in order, when all of
\* its components are realm-scoped.
C1_RealmCompositeScoping ==
    Generated =>
        LET rlm == realm.value
            block == NthBlock(schema.value, RealmBlockNo(rlm))
        IN  \A e \in Range(rlm.composite_roles) :
                (e[1] \in Range(rlm.realm_roles) /\ Len(e[2]) > 0) =>
                    IF \E p \in Range(e[2]) : ClientScoped(p)
                    THEN CommentFor(block, e[1]) /\ ~PermissionFor(block, e[1])
                    ELSE PermissionLine(SafeName(e[1]),
                                        [i \in 1..Len(e[2]) |-> SafeName(e[2][i])])
                            \in Range(block)

\* C2: in the block of a client, a composite role of the client's role list
\* gets a permission line only if every component is a bare reference that
\* is in this client's role list, and gets the comment line and no
\* permission line otherwise; a composite role that is not in the client's
\* role list gets no line in the block.
C2_ClientCompositeScoping ==
    Generated =>
        LET rlm == realm.value
        IN  \A c \in 1..Len(rlm.client_roles) :
                LET roles == rlm.client_roles[c][2]
                    block == NthBlock(schema.value, ClientBlockNo(rlm, c))
                IN  \A e \in Range(rlm.composite_roles) :
                        LET full == \A p \in Range(e[2]) :
                                        ~ClientScoped(p) /\ p \in Range(roles)
                        IN  IF e[1] \in Range(roles)
                            THEN /\ PermissionFor(block, e[1]) => full
                                 /\ ~full => CommentFor(block, e[1])
                            ELSE ~PermissionFor(block, e[1]) /\ ~CommentFor(block, e[1])

OpeningLines(text) == SelectSeq(text, OpensBlock)
IsRelation(line) == HasPrefix(line, <<"    relation ">>)
IsCompositeLine(line) ==
    HasPrefix(line, <<"    permission ">>) \/ HasPrefix(line, <<"    // Composite role '">>)
\* a block of one relation line per role in list order, then only
\* permission and comment lines, then the closing line
RolesThenComposites(block, roles) ==
    /\ Len(block) >= Len(roles) + 2
    /\ \A i \in 1..Len(roles) : block[1 + i] = RelationLine(SafeName(roles[i]), STR_user)
    /\ \A j \in (Len(roles) + 2)..(Len(block) - 1) :
          IsCompositeLine(block[j]) /\ ~IsRelation(block[j])
    /\ block[Len(block)] = CloseLine
    /\ Cardinality({j \in 1..Len(block) : IsRelation(block[j])}) = Len(roles)

\* C12: the blocks of the text are, in this order, the user definition, the
\* group definition when there are groups, the realm definition when there
\* are realm roles, and one definition per client in client_roles order; the
\* realm block and every client block hold one relation line per role in
\* list order, then the permission and comment lines, then the closing line.
C12_BlockOrder ==
    Generated =>
        LET rlm == realm.value
            text == schema.value
        IN  /\ OpeningLines(text) =
                  <<UserDefinition>>
                  \o (IF Len(rlm.groups) > 0 THEN <<DefinitionOpen(STR_group)>> ELSE <<>>)
                  \o (IF Len(rlm.realm_roles) > 0 THEN <<DefinitionOpen(STR_realm)>> ELSE <<>>)
                  \o [c \in 1..Len(rlm.client_roles) |->
                        DefinitionOpen(SafeName(rlm.client_roles[c][1]))]
            /\ Len(rlm.realm_roles) > 0 =>
                  RolesThenComposites(NthBlock(text, RealmBlockNo(rlm)), rlm.realm_roles)
            /\ \A c \in 1..Len(rlm.client_roles) :
                  RolesThenComposites(NthBlock(text, ClientBlockNo(rlm, c)),
                                      rlm.client_roles[c][2])

\* a text with all four kinds of block and a composite line in the realm
\* block and in the client block
C12_Witness ==
    /\ Generated
    /\ Len(realm.value.groups) > 0
    /\ Len(realm.value.realm_roles) > 0
    /\ Len(realm.value.client_roles) > 0
    /\ Len(OpeningLines(schema.value)) = 4
    /\ \E j \in 1..Len(schema.value) : IsCompositeLine(schema.value[j])
    /\ Len(NthBlock(schema.value, RealmBlockNo(realm.value))) = 4
    /\ Len(NthBlock(schema.value, ClientBlockNo(realm.value, 1))) = 4

\* the name in a line "definition <name> {" or "definition <name> {}"
BlockName(line) == SubSeq(line, 2, Len(line) - 1)

\* C17: the names of the definition blocks of the text are pairwise
\* distinct: no two client blocks have one name, and no client block is
\* named as the user, group or realm block of the same text.
C17_DistinctBlockNames ==
    Generated =>
        LET opening == OpeningLines(schema.value)
        IN  \A i, j \in 1..Len(opening) :
                i # j => BlockName(opening[i]) # BlockName(opening[j])

-----------------------------------------------------------------------------
(* keycloak_parser.py *)
EmptyDict == [k \in {} |-> <<>>]
Truthy(d) == DOMAIN d # {}

extract_realm_roles(d) ==
    LET roles == Get(Get(d, "roles", EmptyDict), "realm", <<>>)
        named == SelectSeq(roles, LAMBDA role : Truthy(Get(role, "name", <<>>)))
    IN  [i \in 1..Len(named) |-> named[i].name]

RECURSIVE ExtractClients(_, _)
ExtractClients(client_roles, items) ==
    IF Len(items) = 0 THEN client_roles
    ELSE LET named == SelectSeq(items[1][2],
                                LAMBDA role : Truthy(Get(role, "name", <<>>)))
             role_names == [i \in 1..Len(named) |-> named[i].name]
         IN  ExtractClients(IF Len(role_names) > 0
                            THEN DictSet(client_roles, items[1][1], role_names)
                            ELSE client_roles,
                            Tail(items))

extract_client_roles_all(d) ==
    LET items == Get(Get(d, "roles", EmptyDict), "client", <<>>)
    IN  [c \in 1..Len(items) |->
            LET named == SelectSeq(items[c][2],
                                   LAMBDA role : Truthy(Get(role, "name", <<>>)))
            IN  <<items[c][1], [i \in 1..Len(named) |-> named[i].name]>>]
extract_client_roles(d) ==
    ExtractClients(<<>>, Get(Get(d, "roles", EmptyDict), "client", <<>>))

\* f"{client}:{r}" for r in roles, for every client of composites.client
RECURSIVE ClientComponents(_)
ClientComponents(items) ==
    IF Len(items) = 0 THEN <<>>
    ELSE [i \in 1..Len(items[1][2]) |-> items[1][1] \o <<":">> \o items[1][2][i]]
            \o ClientComponents(Tail(items))

extract_composite_components(role) ==
    LET composites == Get(role, "composites", EmptyDict)
    IN  Get(composites, "realm", <<>>) \o ClientComponents(Get(composites, "client", <<>>))

\* composite_roles[role["name"]] = components : KeyError when "name" is absent
RECURSIVE ExtractComposites(_, _)
ExtractComposites(composite_roles, roles) ==
    IF Len(roles) = 0 THEN Ok(composite_roles)
    ELSE LET role == roles[1]
             components == extract_composite_components(role)
         IN  IF /\ Get(role, "composite", FALSE)
                /\ Truthy(Get(role, "composites", EmptyDict))
                /\ Len(components) > 0
             THEN IF "name" \in DOMAIN role
                  THEN ExtractComposites(DictSet(composite_roles, role.name, components),
                                         Tail(roles))
                  ELSE Raise("KeyError")
             ELSE ExtractComposites(composite_roles, Tail(roles))

\* the realm role records, then every client's role records in client order
AllRoleRecords(d) ==
    LET clients == Get(Get(d, "roles", EmptyDict), "client", <<>>)
    IN  Get(Get(d, "roles", EmptyDict), "realm", <<>>)
            \o Flatten([i \in 1..Len(clients) |-> clients[i][2]])

extract_composite_roles(d) == ExtractComposites(<<>>, AllRoleRecords(d))

RECURSIVE parse_group(_)
parse_group(group_data) ==
    LET subs == Get(group_data, "subGroups", <<>>)
    IN  Group(Get(group_data, "name", <<>>),
              [i \in 1..Len(subs) |-> parse_group(subs[i])])

extract_groups(d) ==
    LET groups == Get(d, "groups", <<>>)
    IN  [i \in 1..Len(groups) |-> parse_group(groups[i])]

STR_UnnamedRealm == <<"U", "n", "n", "a", "m", "e", "d", "R", "e", "a", "l", "m">>

parse_data(d) ==
    LET realm_name == IF Truthy(Get(d, "realm", <<>>)) THEN d.realm
                      ELSE IF Truthy(Get(d, "id", <<>>)) THEN d.id
                      ELSE STR_UnnamedRealm
        composite_roles == extract_composite_roles(d)
    IN  IF ~Returned(composite_roles) THEN composite_roles
        ELSE Ok(KeycloakRealm(realm_name, extract_realm_roles(d), extract_client_roles(d),
                              extract_groups(d), composite_roles.value))

(* Raw records given to parse_data *)
WithName(nm, body) == [k \in DOMAIN body \cup {"name"} |->
                          IF k = "name" THEN nm ELSE body[k]]
RoleBodies ==
    {EmptyDict,
     [composite |-> TRUE, composites |-> [realm |-> <<<<"a">>>>]],
     [composite |-> TRUE,
      composites |-> [realm |-> <<<<"b">>>>, client |-> << <<<<"c">>, <<<<"v">>>>>> >>]],
     [composite |-> TRUE, composites |-> EmptyDict],
     [composite |-> FALSE, composites |-> [realm |-> <<<<"a">>>>]]}
RoleRecords ==
    RoleBodies \cup {WithName(nm, body) : nm \in {<<>>, <<"r">>}, body \in RoleBodies}

RawLeaves == {[name |-> <<"g">>], [name |-> <<"h">>]}
RawTrees ==
    LET kids == SeqsUpTo(RawLeaves, 2)
        children == {EmptyDict}
            \cup {[subGroups |-> k] : k \in kids}
            \cup {[subgroups |-> k] : k \in kids}
            \cup {[subGroups |-> <<[name |-> <<"g">>]>>, subgroups |-> <<[name |-> <<"h">>]>>]}
    IN  {EmptyDict} \cup {WithName(<<"g">>, c) : c \in children}

NameRecords ==
    {EmptyDict, [realm |-> <<"R">>], [id |-> <<"A">>], [realm |-> <<>>, id |-> <<"A">>],
     [realm |-> <<"R">>, id |-> <<"A">>], [realm |-> <<>>, id |-> <<>>]}

\* realm roles; realm and client roles; groups, also nested twice; names
InitParse ==
    /\ \/ \E rl \in SeqsUpTo(RoleRecords, MaxRoles) : data = [roles |-> [realm |-> rl]]
       \/ \E rl \in SeqsUpTo(RoleRecords, 1) :
          \E cl \in OrderedDicts(ClientNames, SeqsUpTo(RoleRecords, 1), MaxClients) :
              data = [roles |-> [realm |-> rl, client |-> cl]]
       \/ \E gs \in SeqsUpTo(RawTrees, MaxGroups) : data = [groups |-> gs]
       \/ \E t \in RawTrees : data = [groups |-> <<[name |-> <<"g">>, subGroups |-> <<t>>]>>]
       \/ data \in NameRecords
    /\ realm = Pending /\ schema = Pending /\ gen_pc = "start"
    /\ SanIdle /\ LlmIdle /\ MainIdle /\ OutIdle

\* process_file: realm = parser_obj.parse_file(input_path)
ParseData ==
    /\ gen_pc = "start"
    /\ realm' = parse_data(data)
    /\ gen_pc' = "parsed"
    /\ UNCHANGED <<data, schema, sanVars, llmVars, mainVars, outVars>>

NextParse == ParseData \/ GenerateSchema
SpecParse == InitParse /\ [][NextParse]_vars

Parsed == gen_pc # "start" /\ Returned(realm)
RoleListOf(d) == Get(Get(d, "roles", EmptyDict), "realm", <<>>)
ClientMapOf(d) == Get(Get(d, "roles", EmptyDict), "client", <<>>)
IsComposite(role) ==
    /\ Get(role, "composite", FALSE)
    /\ Len(extract_composite_components(role)) > 0

\* C4: generate_schema returns for every well-formed Realm, the Realms that
\* parse_data returns included, and the returned text holds the line
\* "definition user {}".
C4_GenerateNeverRaises ==
    gen_pc = "done" => Returned(schema) /\ UserDefinition \in Range(schema.value)

\* C5: parse_data returns also when a role record has no name or an empty
\* one, and such a record gives no entry of realm_roles, of a client's role
\* list or of composite_roles.
C5_UnnamedRoleSkipped ==
    gen_pc # "start" =>
        /\ Returned(realm)
        /\ <<>> \notin Range(realm.value.realm_roles)
        /\ \A e \in Range(realm.value.client_roles) : <<>> \notin Range(e[2])
        /\ <<>> \notin Keys(realm.value.composite_roles)

\* C6: when a realm role and a client role have the same name and both are
\* composite, composite_roles keeps the component list of each.
C6_NoCrossScopeOverwrite ==
    Parsed =>
        \A rr \in Range(RoleListOf(data)) :
        \A cl \in Range(ClientMapOf(data)) :
        \A cr \in Range(cl[2]) :
            (/\ IsComposite(rr) /\ IsComposite(cr)
             /\ Truthy(Get(rr, "name", <<>>))
             /\ Get(rr, "name", <<>>) = Get(cr, "name", <<>>)) =>
                /\ <<rr.name, extract_composite_components(rr)>>
                        \in Range(realm.value.composite_roles)
                /\ <<cr.name, extract_composite_components(cr)>>
                        \in Range(realm.value.composite_roles)

\* the Group the claim describes: children from subGroups or, when that key
\* is absent, from subgroups
RECURSIVE GroupOfEitherKey(_)
GroupOfEitherKey(group_data) ==
    LET subs == IF "subGroups" \in DOMAIN group_data THEN group_data.subGroups
                ELSE Get(group_data, "subgroups", <<>>)
    IN  Group(Get(group_data, "name", <<>>),
              [i \in 1..Len(subs) |-> GroupOfEitherKey(subs[i])])

\* C7: groups are parsed recursively in source order, the children of a
\* record being read from subGroups or, when that key is absent, from
\* subgroups.
C7_SubgroupsEitherKey ==
    Parsed =>
        LET groups == Get(data, "groups", <<>>)
        IN  realm.value.groups = [i \in 1..Len(groups) |-> GroupOfEitherKey(groups[i])]

\* no two named role records of one list have the same name
NamesDistinct(roles) ==
    \A i, j \in 1..Len(roles) :
        (/\ i # j
         /\ Truthy(Get(roles[i], "name", <<>>))
         /\ Truthy(Get(roles[j], "name", <<>>))) =>
            roles[i].name # roles[j].name
ScopesWellFormed(d) ==
    /\ NamesDistinct(RoleListOf(d))
    /\ \A cl \in Range(ClientMapOf(d)) : NamesDistinct(cl[2])

\* C11: when role names are distinct within the realm list and within each
\* client's list, every named role record marked composite whose component
\* list (composites.realm in order, then client:role in order) is not empty
\* has composite_roles[name] equal to that list, and the name of every other
\* named record is not a key of composite_roles.
C11_CompositeEntries ==
    (Parsed /\ ScopesWellFormed(data)) =>
        \A role \in Range(AllRoleRecords(data)) :
            Truthy(Get(role, "name", <<>>)) =>
                IF IsComposite(role)
                THEN <<role.name, extract_composite_components(role)>>
                        \in Range(realm.value.composite_roles)
                ELSE role.name \notin Keys(realm.value.composite_roles)

\* the role records of the list that have a non-empty name
NamedRoles(roles) == SelectSeq(roles, LAMBDA role : Truthy(Get(role, "name", <<>>)))

\* C15: the Realm that parse_data returns has a non-empty name, which is the
\* record's realm, else its id, else "UnnamedRealm"; no client of client_roles
\* has an empty role list, and a client whose role records give no role name
\* is not a key of client_roles.
C15_NameAndClientsNonEmpty ==
    Parsed =>
        /\ Len(realm.value.name) > 0
        /\ realm.value.name =
              (IF "realm" \in DOMAIN data /\ Len(data.realm) > 0 THEN data.realm
               ELSE IF "id" \in DOMAIN data /\ Len(data.id) > 0 THEN data.id
               ELSE STR_UnnamedRealm)
        /\ \A e \in Range(realm.value.client_roles) : Len(e[2]) > 0
        /\ \A cl \in Range(ClientMapOf(data)) :
              Len(NamedRoles(cl[2])) = 0 <=> cl[1] \notin Keys(realm.value.client_roles)

\* of two clients, the one whose only role record has no name is left out
\* and the other is kept
C15_Witness ==
    /\ Parsed
    /\ Len(ClientMapOf(data)) = 2
    /\ Len(ClientMapOf(data)[1][2]) = 1
    /\ Len(NamedRoles(ClientMapOf(data)[1][2])) = 0
    /\ Keys(realm.value.client_roles) = {ClientMapOf(data)[2][1]}
    /\ realm.value.name = STR_UnnamedRealm

-----------------------------------------------------------------------------
(* llm_transformer.py *)
Whitespace == {" ", "\n", "\t"}
RECURSIVE LStrip(_)
LStrip(t) == IF Len(t) > 0 /\ Head(t) \in Whitespace THEN LStrip(Tail(t)) ELSE t
RECURSIVE RStrip(_)
RStrip(t) ==
    IF Len(t) > 0 /\ t[Len(t)] \in Whitespace THEN RStrip(SubSeq(t, 1, Len(t) - 1)) ELSE t
\* str.strip()
Strip(t) == RStrip(LStrip(t))

\* the try block of transform: the model's text stripped, or on any
\* Exception of the call the deterministic generator's outcome
transform(rlm, l) ==
    IF l.fails THEN generate_schema(rlm) ELSE Ok(Strip(l.text))

\* the language model: how transform calls it (predict, a chat message, or
\* the instance itself), and whether the call raises or returns a text
LLMs ==
    {[kind |-> k, fails |-> TRUE, text |-> <<>>] : k \in {"predict", "chat", "call"}}
    \cup {[kind |-> k, fails |-> FALSE, text |-> t] :
            k \in {"predict", "chat", "call"}, t \in SeqsUpTo({" ", "d"}, MaxLen)}

EmptyClientRealm ==
    KeycloakRealm(RealmName, <<>>, << <<<<>>, <<<<"a">>>>>> >>, <<>>, <<>>)
TransformRealms == GroupFamily \cup {EmptyClientRealm}

InitTransform ==
    /\ realm \in {Ok(r) : r \in TransformRealms}
    /\ llm \in LLMs
    /\ result = Pending /\ generator_calls = 0 /\ llm_pc = "start"
    /\ data = <<>> /\ schema = Pending /\ gen_pc = "idle"
    /\ SanIdle /\ MainIdle /\ OutIdle

Transform ==
    /\ llm_pc = "start"
    /\ result' = transform(realm.value, llm)
    /\ generator_calls' = IF llm.fails THEN generator_calls + 1 ELSE generator_calls
    /\ llm_pc' = "done"
    /\ UNCHANGED <<llm, genVars, sanVars, mainVars, outVars>>

NextTransform == Transform
SpecTransform == InitTransform /\ [][NextTransform]_vars

\* C8: when the language-model call raises, transform does not raise and
\* returns the text generate_schema gives for the same realm; when the call
\* returns, transform returns its text stripped and the generator is not
\* called.
C8_TransformFallback ==
    llm_pc = "done" =>
        IF llm.fails
        THEN /\ Returned(result)
             /\ Returned(generate_schema(realm.value))
             /\ result.value = generate_schema(realm.value).value
        ELSE result = Ok(Strip(llm.text)) /\ generator_calls = 0

-----------------------------------------------------------------------------
(* cli.py *)
\* what process_file meets for a file: the schema is written ("saved"), the
\* schema text is blank ("empty"), or a step raises an Exception ("error")
Outcomes == {"saved", "empty", "error"}

\* process_file returns True after writing the schema, False otherwise
process_file(o) == o = "saved"

ExitStatusAnySuccess(rs) ==
    IF Cardinality({i \in 1..Len(rs) : rs[i]}) > 0 THEN 0 ELSE 1
\* success_count = sum(results); fail_count = len(results) - success_count
ExitStatus(rs) ==
    LET success_count == Cardinality({i \in 1..Len(rs) : rs[i]})
        fail_count == Len(rs) - success_count
    IN  IF fail_count = 0 THEN 0 ELSE 1

Min(a, b) == IF a < b THEN a ELSE b
max_workers_per_file == Len(input_files)
\* ThreadPoolExecutor(max_workers=min(args.jobs, len(input_files)))
max_workers == Min(jobs, Len(input_files))
Files == 1..Len(input_files)

InitMain ==
    /\ input_files \in {[i \in 1..n |-> i] : n \in 1..MaxFiles}
    /\ jobs \in 0..MaxJobs
    /\ outcome \in [1..Len(input_files) -> Outcomes]
    /\ submitted = <<>> /\ running = {} /\ finished = {} /\ collected = {}
    /\ results = <<>>
    /\ calls = [i \in 1..Len(input_files) |-> 0]
    /\ main_pc = "start" /\ exit_status = -1
    /\ SanIdle /\ GenIdle /\ LlmIdle /\ OutIdle

\* if len(input_files) > 1 and args.jobs > 1: ... else: ...
MainBranch ==
    /\ main_pc = "start"
    /\ main_pc' = IF Len(input_files) > 1 /\ jobs > 1 THEN "submit" ELSE "loop"
    /\ UNCHANGED <<input_files, jobs, outcome, submitted, running, finished, collected,
                   results, calls, exit_status, sanVars, genVars, llmVars, outVars>>

\* executor.submit(process_file, path, ...) for path in input_files
MainSubmit ==
    /\ main_pc = "submit"
    /\ submitted' = Append(submitted, Len(submitted) + 1)
    /\ main_pc' = IF Len(submitted') = Len(input_files) THEN "collect" ELSE "submit"
    /\ UNCHANGED <<input_files, jobs, outcome, running, finished, collected,
                   results, calls, exit_status, sanVars, genVars, llmVars, outVars>>

\* a pool thread takes the oldest queued work item
WorkerStart(k) ==
    /\ main_pc \in {"submit", "collect"}
    /\ k \in Range(submitted)
    /\ calls[k] = 0
    /\ \A j \in Range(submitted) : j < k => calls[j] > 0
    /\ Cardinality(running) < max_workers
    /\ running' = running \cup {k}
    /\ calls' = [calls EXCEPT ![k] = @ + 1]
    /\ UNCHANGED <<input_files, jobs, outcome, submitted, finished, collected,
                   results, main_pc, exit_status, sanVars, genVars, llmVars, outVars>>

\* process_file returns in its thread (it catches every Exception)
WorkerFinish(k) ==
    /\ main_pc \in {"submit", "collect"}
    /\ k \in running
    /\ running' = running \ {k}
    /\ finished' = finished \cup {k}
    /\ UNCHANGED <<input_files, jobs, outcome, submitted, collected,
                   results, calls, main_pc, exit_status, sanVars, genVars, llmVars, outVars>>

\* results = [future.result() for future in as_completed(future_to_path)],
\* then the executor's shutdown at the end of the with block
MainCollect(k) ==
    /\ main_pc = "collect"
    /\ k \in finished \ collected
    /\ collected' = collected \cup {k}
    /\ results' = Append(results, process_file(outcome[k]))
    /\ main_pc' = IF collected' = Files THEN "count" ELSE "collect"
    /\ UNCHANGED <<input_files, jobs, outcome, submitted, running, finished,
                   calls, exit_status, sanVars, genVars, llmVars, outVars>>

\* for path in input_files: the call of process_file(path, out_path, ...)
LoopCall ==
    /\ main_pc = "loop"
    /\ running = {}
    /\ Len(results) < Len(input_files)
    /\ running' = {Len(results) + 1}
    /\ calls' = [calls EXCEPT ![Len(results) + 1] = @ + 1]
    /\ UNCHANGED <<input_files, jobs, outcome, submitted, finished, collected,
                   results, main_pc, exit_status, sanVars, genVars, llmVars, outVars>>

\* results.append(process_file(...))
LoopAppend ==
    /\ main_pc = "loop"
    /\ running # {}
    /\ results' = Append(results, process_file(outcome[Len(results) + 1]))
    /\ running' = {}
    /\ finished' = finished \cup running
    /\ main_pc' = IF Len(results') = Len(input_files) THEN "count" ELSE "loop"
    /\ UNCHANGED <<input_files, jobs, outcome, submitted, collected,
                   calls, exit_status, sanVars, genVars, llmVars, outVars>>

\* return 0 if fail_count == 0 else 1
MainReturn ==
    /\ main_pc = "count"
    /\ exit_status' = ExitStatus(results)
    /\ main_pc' = "returned"
    /\ UNCHANGED <<input_files, jobs, outcome, submitted, running, finished, collected,
                   results, calls, sanVars, genVars, llmVars, outVars>>

MainThread ==
    \/ MainBranch
    \/ MainSubmit
    \/ \E k \in Files : MainCollect(k)
    \/ LoopCall
    \/ LoopAppend
    \/ MainReturn
Worker(k) == WorkerStart(k) \/ WorkerFinish(k)
NextMain == MainThread \/ \E k \in Files : Worker(k)

\* the main thread and every pool thread keep running, and a call of
\* process_file ends
SpecMain ==
    /\ InitMain /\ [][NextMain]_vars
    /\ WF_vars(MainThread)
    /\ \A k \in 1..MaxFiles : WF_vars(Worker(k))

\* C9: on the sequential path and on the thread-pool path alike, every
\* input file is given to process_file exactly once whatever the other
\* files do, main returns, and it returns 0 if and only if every
\* process_file call returned True, 1 otherwise.
C9_MainProcessesAllAndReturns ==
    /\ [](\A k \in Files : calls[k] <= 1)
    /\ [](main_pc = "returned" =>
            /\ \A k \in Files : calls[k] = 1
            /\ exit_status \in {0, 1}
            /\ exit_status = 0 <=> \A k \in Files : process_file(outcome[k]))
    /\ <>(main_pc = "returned")

\* the pool has run three files, the second of them failing, and main has
\* returned 1
C9_Witness ==
    /\ main_pc = "returned"
    /\ Len(input_files) > 2 /\ jobs > 1
    /\ outcome[1] = "saved" /\ outcome[2] = "error" /\ outcome[3] = "saved"
    /\ results = <<TRUE, TRUE, FALSE>>
    /\ exit_status = 1

Max(a, b) == IF a > b THEN a ELSE b
\* process_file executions never overlap and start in input-file order
InOrderNoOverlap ==
    /\ Cardinality(running) <= 1
    /\ \A k \in Files : calls[k] > 0 => \A j \in 1..(k - 1) : j \in finished

\* C14 as stated: at most min(jobs, number of input files) executions of
\* process_file are in progress in any state, and with jobs <= 1 or a single
\* input file they never overlap and run in input-file order.
C14_AtMostMinJobs ==
    /\ Cardinality(running) <= Min(jobs, Len(input_files))
    /\ (jobs <= 1 \/ Len(input_files) = 1) => InOrderNoOverlap

\* C14, amended: at most max(1, min(jobs, number of input files))
\* executions of process_file are in progress in any state, and with
\* jobs <= 1 or a single input file they never overlap and run in
\* input-file order.
C14_BoundedOverlap ==
    /\ Cardinality(running) <= Max(1, Min(jobs, Len(input_files)))
    /\ (jobs <= 1 \/ Len(input_files) = 1) => InOrderNoOverlap

\* two jobs, three files: two executions in progress and the third file
\* waiting in the pool's queue
C14_Witness ==
    /\ jobs = 2 /\ Len(input_files) = 3
    /\ Len(submitted) = 3
    /\ Cardinality(running) = 2
    /\ calls[3] = 0

-----------------------------------------------------------------------------
(* cli.py: the output file of every input file *)
\* a path: its directory as a sequence of components, absolute when it
\* starts with "/", and its file name as a stem and an extension
Path(dir, stem, ext) == [dir |-> dir, stem |-> stem, ext |-> ext]
Getcwd == <<"/", "w">>
basename(p) == [stem |-> p.stem, ext |-> p.ext]
dirname(p) == p.dir
splitext(f) == <<f.stem, f.ext>>
join(dir, f) == Path(dir, f.stem, f.ext)
abspath(p) ==
    IF Len(p.dir) > 0 /\ Head(p.dir) = "/" THEN p ELSE [p EXCEPT !.dir = Getcwd \o @]
\* os.path.splitext(os.path.basename(path))[0] + ".zed"
ZedName(path) == [stem |-> splitext(basename(path))[1], ext |-> ".zed"]
\* None, where the value is not read
NoPath == Path(<<>>, "", "")

\* output_arg = "" stands for no --output
determine_output_paths(files, arg) ==
    IF arg = ""
    THEN IF Len(files) = 1
         THEN [output_dir |-> <<>>,
               output_file |-> join(dirname(files[1]), ZedName(files[1]))]
         ELSE [output_dir |-> Getcwd, output_file |-> NoPath]
    ELSE IF Len(files) > 1
         THEN [output_dir |-> <<arg>>, output_file |-> NoPath]
         ELSE [output_dir |-> <<>>, output_file |-> Path(<<>>, arg, "")]

\* the output_path argument of process_file(path, ...), the same expression
\* on the thread-pool path and in the sequential loop
OutPath(files, arg, path) ==
    LET out == determine_output_paths(files, arg)
    IN  IF Len(files) = 1 THEN out.output_file
        ELSE join(out.output_dir, ZedName(path))

\* input files in two directories, three of them named x
InputPaths ==
    {Path(<<"d1">>, "x", ".json"), Path(<<"d2">>, "x", ".json"),
     Path(<<"d1">>, "y", ".json"), Path(<<"d1">>, "x", ".JSON")}

InitOutput ==
    /\ in_paths \in SeqsUpTo(InputPaths, MaxFiles) \ {<<>>}
    /\ output_arg \in {"", "out"}
    /\ out_paths = <<>> /\ written = {}
    /\ SanIdle /\ GenIdle /\ LlmIdle /\ MainIdle

\* main computes the output path of the next input file
AssignOutPath ==
    /\ Len(out_paths) < Len(in_paths)
    /\ out_paths' = Append(out_paths,
                           OutPath(in_paths, output_arg, in_paths[Len(out_paths) + 1]))
    /\ UNCHANGED <<in_paths, output_arg, written, sanVars, genVars, llmVars, mainVars>>

\* process_file(path, output_path, ...) reaches
\* open(os.path.abspath(output_path), "w") and writes the schema
WriteSchema(k) ==
    /\ k \in 1..Len(out_paths)
    /\ \A w \in written : w[1] # k
    /\ written' = written \cup {<<k, abspath(out_paths[k])>>}
    /\ UNCHANGED <<in_paths, output_arg, out_paths, sanVars, genVars, llmVars, mainVars>>

NextOutput == AssignOutPath \/ \E k \in 1..MaxFiles : WriteSchema(k)
SpecOutput == InitOutput /\ [][NextOutput]_vars

\* C16: with more than one input file, distinct input files are given
\* distinct output paths, and no two executions of process_file for
\* distinct input files write the same file.
C16_DistinctOutputPaths ==
    Len(in_paths) > 1 =>
        /\ \A i, j \in 1..Len(out_paths) :
              in_paths[i] # in_paths[j] => out_paths[i] # out_paths[j]
        /\ \A v, w \in written :
              in_paths[v[1]] # in_paths[w[1]] => v[2] # w[2]

====
